---- MODULE Spec2Model ----
(***************************************************************************)
(* Model of simple_udp_comm (src/src/main.rs): a lockstep request/echo     *)
(* protocol over UDP.  The client (run_client) drives the sequence         *)
(* numbers 1..100, one in flight at a time, and ends with one fin message; *)
(* the server (run_server) echoes every data message, retransmits its last *)
(* reply on silence and returns on fin.  Each endpoint keeps a RecvLog of  *)
(* the numbers it received and prints it as compressed ranges.             *)
(***************************************************************************)
EXTENDS Integers, Sequences, FiniteSets, TLC

(***************************************************************************)
(* Bounds of the model.                                                    *)
(***************************************************************************)
\* The last sequence number the client drives (100 in main.rs:153,184),
\* scaled down.
LastNo == 2
\* Cap on the client's retry counter (a u32 in the code).
MaxRetry == 1
\* Cap on the retry counter of the server's last_msg (a u32 in the code).
MaxResend == 2
\* Datagrams the transport holds at once; a send beyond it is lost.
MaxInFlight == 1
\* Datagrams of other hosts that reach the two endpoints in one run.
MaxForeign == 1
\* Largest number given to RecvLog::record in the ledger specification.
MaxLogNo == 12

VARIABLES
    \* run_client
    cpc,          \* "send" | "recv" | "done" (Ok) | "failed" (Err by `?`)
    no,           \* main.rs:147
    retry,        \* main.rs:148
    c_recv_log,   \* main.rs:151
    \* run_server
    spc,          \* "loop" | "done" (Ok at :286) | "failed" (Err by `?`)
    last_msg,     \* main.rs:244, an Option<Message>
    last_addr,    \* main.rs:245, an Option<SocketAddr>
    s_recv_log,   \* main.rs:248
    \* the transport: the datagrams in flight
    net,
    \* history of the run
    acked,        \* sequences n whose echo reached the client while no = n
    sentNos,      \* sequences the client sent a data message for
    finSent,      \* fin messages the client sent
    sends,        \* data messages the client sent for the current sequence
    sreq,         \* the request last_msg answers: its no and its sender
    timeouts,     \* server timeouts since that reply
    resent,       \* server retransmissions since that reply
    foreign,      \* datagrams of other hosts received so far
    \* the ledger specification: a RecvLog, the line it last printed, and
    \* the numbers record() was called with
    log, line, recorded

cvars == <<cpc, no, retry, c_recv_log, acked, sentNos, finSent, sends>>
svars == <<spc, last_msg, last_addr, s_recv_log, sreq, timeouts, resent>>
lvars == <<log, line, recorded>>
vars == <<cvars, svars, net, foreign, lvars>>

(***************************************************************************)
(* Text.  A String is the sequence of its characters, so that format! and  *)
(* join are computed and their result can be read back.                    *)
(***************************************************************************)
Digit(d) == <<"0", "1", "2", "3", "4", "5", "6", "7", "8", "9">>[d + 1]

RECURSIVE FormatNum(_)
\* format!("{}", n) of a u32
FormatNum(n) ==
    IF n < 10 THEN <<Digit(n)>>
    ELSE FormatNum(n \div 10) \o <<Digit(n % 10)>>

\* format!("{}-{}", s, p)
FormatRange(s, p) == FormatNum(s) \o <<"-">> \o FormatNum(p)

RECURSIVE Join(_, _)
\* ranges.join(sep)
Join(strs, sep) ==
    IF strs = <<>> THEN <<>>
    ELSE IF Len(strs) = 1 THEN strs[1]
    ELSE strs[1] \o sep \o Join(Tail(strs), sep)

(***************************************************************************)
(* Option<T>: None is <<>>, Some(v) is <<v>>.                              *)
(***************************************************************************)
None == <<>>
Some(v) == <<v>>
IsSome(o) == o # <<>>
Unwrap(o) == o[1]

(***************************************************************************)
(* RecvLog (main.rs:33-101).                                               *)
(***************************************************************************)
\* RecvLog::new
RecvLogNew(label) == [label |-> label, received |-> {}]

SetMin(S) == CHOOSE x \in S : \A y \in S : x <= y
SetMax(S) == CHOOSE x \in S : \A y \in S : x >= y

RECURSIVE Ascending(_)
\* The iteration order of a BTreeSet<u32>.
Ascending(S) ==
    IF S = {} THEN <<>>
    ELSE <<SetMin(S)>> \o Ascending(S \ {SetMin(S)})

\* The run start..prev as one entry of `ranges` (main.rs:78-82, 92-96).
PushRun(ranges, s, p) ==
    IF s = p THEN Append(ranges, FormatNum(s))
    ELSE Append(ranges, FormatRange(s, p))

\* One pass of the for loop (main.rs:66-89) on the element n.
RangesStep(st, n) ==
    IF ~IsSome(st.start)
    THEN [st EXCEPT !.start = Some(n), !.prev = Some(n)]
    ELSE IF IsSome(st.prev)
    THEN IF n = Unwrap(st.prev) + 1
         THEN [st EXCEPT !.prev = Some(n)]
         ELSE [ranges |-> PushRun(st.ranges, Unwrap(st.start), Unwrap(st.prev)),
               start |-> Some(n), prev |-> Some(n)]
    ELSE st

RECURSIVE RangesLoop(_, _)
RangesLoop(st, ns) ==
    IF ns = <<>> THEN st
    ELSE RangesLoop(RangesStep(st, Head(ns)), Tail(ns))

\* RangesFlush without the flush: the last run is never pushed.
RangesFlush_Forgotten(st) == st.ranges

\* The flush after the loop (main.rs:91-97).
RangesFlush(st) ==
    IF IsSome(st.start) /\ IsSome(st.prev)
    THEN PushRun(st.ranges, Unwrap(st.start), Unwrap(st.prev))
    ELSE st.ranges

\* RecvLog::build_ranges_summary
build_ranges_summary(self) ==
    LET st0 == [ranges |-> <<>>, start |-> None, prev |-> None]
        st == RangesLoop(st0, Ascending(self.received))
    IN Join(RangesFlush(st), <<",", " ">>)

\* The line record() prints (main.rs:49-57).
SummaryLine(self) ==
    [label |-> self.label,
     min |-> IF self.received = {} THEN 0 ELSE SetMin(self.received),
     max |-> IF self.received = {} THEN 0 ELSE SetMax(self.received),
     total |-> Cardinality(self.received),
     ranges |-> build_ranges_summary(self)]

\* record that removes a number it already holds.
record_Toggle(self, n) ==
    [self EXCEPT !.received = IF n \in @ THEN @ \ {n} ELSE @ \cup {n}]

\* RecvLog::record: the ledger after the call.
record(self, n) == [self EXCEPT !.received = @ \cup {n}]

(***************************************************************************)
(* Message and its JSON text (main.rs:11-29).                              *)
(***************************************************************************)
\* default_kind that answers Fin.
default_kind_Fin == "fin"

\* default_kind
default_kind == "data"

\* What serde_json::from_str::<Message> returns for text that is not a
\* Message.
DecodeErr == [ok |-> FALSE, msg |-> [no |-> 0, retry |-> 0, from |-> "", kind |-> "data"]]

\* Text that does not conform to the schema.
Junk == [wf |-> FALSE, no |-> 0, retry |-> 0, from |-> "", kind |-> "absent"]

\* serde_json::to_vec(&msg): every field is written, kind included.
to_vec(msg) ==
    [wf |-> TRUE, no |-> msg.no, retry |-> msg.retry, from |-> msg.from,
     kind |-> msg.kind]

\* serde_json::from_str::<Message>(&text): a missing kind is default_kind().
from_str(text) ==
    IF text.wf
    THEN [ok |-> TRUE,
          msg |-> [no |-> text.no, retry |-> text.retry, from |-> text.from,
                   kind |-> IF text.kind = "absent" THEN default_kind ELSE text.kind]]
    ELSE DecodeErr

\* ClientData one sequence ahead.
ClientData_NextNo == [no |-> no + 1, retry |-> retry, from |-> "client", kind |-> "data"]

\* The message built at main.rs:154-159.
ClientData == [no |-> no, retry |-> retry, from |-> "client", kind |-> "data"]

\* The message built at main.rs:190-195.
ClientFin == [no |-> 0, retry |-> 0, from |-> "client", kind |-> "fin"]

\* ServerReply that acknowledges with the next sequence.
ServerReply_NextExpected(msg) ==
    [no |-> msg.no + 1, retry |-> 0, from |-> "server", kind |-> "data"]

\* The reply built at main.rs:268-273.
ServerReply(msg) == [no |-> msg.no, retry |-> 0, from |-> "server", kind |-> "data"]

\* IsAwaited without the comparison of the sequence.
IsAwaited_AnySeq(reply) ==
    /\ reply.kind = "data"
    /\ reply.from = "server"

\* reply is the awaited echo (main.rs:179-181).
IsAwaited(reply) ==
    /\ reply.kind = "data"
    /\ reply.from = "server"
    /\ reply.no = no

(***************************************************************************)
(* The transport.  Addresses: "c" the client's socket, "s" the server's,   *)
(* "x" any other host.  A datagram in flight is [to, payload]; datagrams   *)
(* to "x" leave the system.                                                *)
(***************************************************************************)
Text(n, r, f, k) == [wf |-> TRUE, no |-> n, retry |-> r, from |-> f, kind |-> k]

\* Datagrams other hosts send to either endpoint: junk, a message without
\* kind, with another origin, with no = 0, a fin with no # 0.
ForeignTexts ==
    {Junk, Text(1, 0, "server", "absent"), Text(1, 0, "other", "data"),
     Text(0, 0, "server", "data"), Text(1, 0, "server", "fin")}

\* socket.send / socket.send_to returned Ok: the datagram is in flight, or
\* lost at once when the transport is full.
Transmit(n, to, payload) ==
    IF to \in {"c", "s"} /\ Cardinality(n) < MaxInFlight
    THEN n \cup {[to |-> to, payload |-> payload]}
    ELSE n

\* text is, for the client at sequence n, a decodable data message from
\* "server" with no = n.
EchoFor(text, n) ==
    /\ from_str(text).ok
    /\ from_str(text).msg.kind = "data"
    /\ from_str(text).msg.from = "server"
    /\ from_str(text).msg.no = n

(***************************************************************************)
(* run_client (main.rs:140-236).  One loop iteration is two steps: the     *)
(* send (:153-162) and the outcome of the 100 ms wait (:167-231).          *)
(***************************************************************************)
\* main.rs:153-162.  sent: whether socket.send returned Ok.
ClientSend(sent) ==
    /\ cpc = "send"
    /\ IF no <= LastNo
       THEN IF sent
            THEN /\ net' = Transmit(net, "s", to_vec(ClientData))
                 /\ cpc' = "recv"
                 /\ sentNos' = sentNos \cup {ClientData.no}
                 /\ sends' = sends + 1
            ELSE /\ cpc' = "failed"
                 /\ UNCHANGED <<net, sentNos, sends>>
       ELSE /\ cpc' = "done"
            /\ UNCHANGED <<net, sentNos, sends>>
    /\ UNCHANGED <<no, retry, c_recv_log, acked, finSent, svars, foreign, lvars>>

\* ClientRetry that forgets the increment.
ClientRetry_NoCount ==
    /\ retry < MaxRetry
    /\ retry' = retry
    /\ cpc' = "send"
    /\ UNCHANGED <<no, finSent, sends>>

\* retry += 1, and the loop goes round (main.rs:210, 215, 221, 225).
ClientRetry ==
    /\ retry < MaxRetry
    /\ retry' = retry + 1
    /\ cpc' = "send"
    /\ UNCHANGED <<no, finSent, sends>>

\* main.rs:223-230: the wait timed out.
ClientTimeout ==
    /\ cpc = "recv"
    /\ ClientRetry
    /\ UNCHANGED <<c_recv_log, acked, net, sentNos, svars, foreign, lvars>>

\* main.rs:219-222: socket.recv returned an error.
ClientRecvErr ==
    /\ cpc = "recv"
    /\ ClientRetry
    /\ UNCHANGED <<c_recv_log, acked, net, sentNos, svars, foreign, lvars>>

\* The messages the client sends on the datagram `text` (main.rs:179-198);
\* none when the send fails.
ClientRecvSends(text, sent) ==
    LET dec == from_str(text)
    IN IF dec.ok /\ IsAwaited(dec.msg) /\ no = LastNo /\ sent
       THEN <<ClientFin>>
       ELSE <<>>

\* ClientAdvance without the break after fin: the loop goes round.
ClientAdvance_NoBreak(n, text, sent) ==
    IF no = LastNo
    THEN IF sent
         THEN /\ net' = Transmit(n, "s", to_vec(ClientRecvSends(text, sent)[1]))
              /\ finSent' = finSent + 1
              /\ cpc' = "send"
              /\ UNCHANGED <<no, retry, sends>>
         ELSE /\ net' = n
              /\ cpc' = "failed"
              /\ UNCHANGED <<no, retry, finSent, sends>>
    ELSE /\ no' = no + 1
         /\ retry' = 0
         /\ sends' = 0
         /\ net' = n
         /\ cpc' = "send"
         /\ UNCHANGED finSent

\* ClientAdvance without the reset of retry.
ClientAdvance_KeepsRetry(n, text, sent) ==
    IF no = LastNo
    THEN IF sent
         THEN /\ net' = Transmit(n, "s", to_vec(ClientRecvSends(text, sent)[1]))
              /\ finSent' = finSent + 1
              /\ cpc' = "done"
              /\ UNCHANGED <<no, retry, sends>>
         ELSE /\ net' = n
              /\ cpc' = "failed"
              /\ UNCHANGED <<no, retry, finSent, sends>>
    ELSE /\ no' = no + 1
         /\ retry' = retry
         /\ sends' = 0
         /\ net' = n
         /\ cpc' = "send"
         /\ UNCHANGED finSent

\* ClientAdvance that forgets no += 1.
ClientAdvance_NoIncrement(n, text, sent) ==
    IF no = LastNo
    THEN IF sent
         THEN /\ net' = Transmit(n, "s", to_vec(ClientRecvSends(text, sent)[1]))
              /\ finSent' = finSent + 1
              /\ cpc' = "done"
              /\ UNCHANGED <<no, retry, sends>>
         ELSE /\ net' = n
              /\ cpc' = "failed"
              /\ UNCHANGED <<no, retry, finSent, sends>>
    ELSE /\ no' = no
         /\ retry' = 0
         /\ sends' = 0
         /\ net' = n
         /\ cpc' = "send"
         /\ UNCHANGED finSent

\* main.rs:184-203: the awaited echo came.  sent: whether the send of fin
\* returned Ok.
ClientAdvance(n, text, sent) ==
    IF no = LastNo
    THEN IF sent
         THEN /\ net' = Transmit(n, "s", to_vec(ClientRecvSends(text, sent)[1]))
              /\ finSent' = finSent + 1
              /\ cpc' = "done"
              /\ UNCHANGED <<no, retry, sends>>
         ELSE /\ net' = n
              /\ cpc' = "failed"
              /\ UNCHANGED <<no, retry, finSent, sends>>
    ELSE /\ no' = no + 1
         /\ retry' = 0
         /\ sends' = 0
         /\ net' = n
         /\ cpc' = "send"
         /\ UNCHANGED finSent

\* ClientOnDatagram that records only the awaited echo.
ClientOnDatagram_LogsAwaited(n, text, sent) ==
    LET dec == from_str(text)
        reply == dec.msg
    IN /\ cpc = "recv"
       /\ acked' = IF EchoFor(text, no) THEN acked \cup {no} ELSE acked
       /\ IF dec.ok
          THEN /\ c_recv_log' = IF IsAwaited(reply)
                                THEN record(c_recv_log, reply.no)
                                ELSE c_recv_log
               /\ IF IsAwaited(reply)
                  THEN ClientAdvance(n, text, sent)
                  ELSE ClientRetry /\ net' = n
          ELSE /\ ClientRetry
               /\ net' = n
               /\ UNCHANGED c_recv_log
       /\ UNCHANGED <<sentNos, svars, lvars>>

\* main.rs:168-217: socket.recv returned the datagram `text`; n is the
\* transport after the delivery.
ClientOnDatagram(n, text, sent) ==
    LET dec == from_str(text)
        reply == dec.msg
    IN /\ cpc = "recv"
       /\ acked' = IF EchoFor(text, no) THEN acked \cup {no} ELSE acked
       /\ IF dec.ok
          THEN /\ c_recv_log' = IF reply.kind = "data"
                                THEN record(c_recv_log, reply.no)
                                ELSE c_recv_log
               /\ IF IsAwaited(reply)
                  THEN ClientAdvance(n, text, sent)
                  ELSE ClientRetry /\ net' = n
          ELSE /\ ClientRetry
               /\ net' = n
               /\ UNCHANGED c_recv_log
       /\ UNCHANGED <<sentNos, svars, lvars>>

\* A datagram in flight reaches the client; the transport may deliver it
\* again later (keep).
ClientRecvNet(sent) ==
    \E d \in net, keep \in BOOLEAN :
        /\ d.to = "c"
        /\ ClientOnDatagram(IF keep THEN net ELSE net \ {d}, d.payload, sent)
        /\ UNCHANGED foreign

\* A datagram of another host reaches the client's socket.
ClientRecvForeign(sent) ==
    \E text \in ForeignTexts :
        /\ foreign < MaxForeign
        /\ foreign' = foreign + 1
        /\ ClientOnDatagram(net, text, sent)

(***************************************************************************)
(* run_server (main.rs:239-316).  One step is one loop iteration.          *)
(***************************************************************************)
\* The datagrams [msg, to] the server sends on the datagram `text` from
\* addr (main.rs:263-276); none when send_to fails.
ServerRecvSends(text, addr, sent) ==
    LET dec == from_str(text)
    IN IF dec.ok /\ dec.msg.kind = "data" /\ sent
       THEN <<[msg |-> ServerReply(dec.msg), to |-> addr]>>
       ELSE <<>>

\* ServerOnData that answers no request below the sequence of last_msg.
ServerOnData_IgnoresEarlier(n, text, addr, sent) ==
    LET msg == from_str(text).msg
    IN /\ s_recv_log' = record(s_recv_log, msg.no)
       /\ IF IsSome(last_msg) /\ msg.no < Unwrap(last_msg).no
          THEN /\ net' = n
               /\ UNCHANGED <<spc, last_msg, last_addr, sreq, timeouts, resent>>
          ELSE IF sent
          THEN LET out == ServerRecvSends(text, addr, sent)[1]
               IN /\ net' = Transmit(n, out.to, to_vec(out.msg))
                  /\ last_msg' = Some(out.msg)
                  /\ last_addr' = Some(addr)
                  /\ sreq' = [no |-> msg.no, addr |-> addr]
                  /\ timeouts' = 0
                  /\ resent' = 0
                  /\ UNCHANGED spc
          ELSE /\ net' = n
               /\ spc' = "failed"
               /\ UNCHANGED <<last_msg, last_addr, sreq, timeouts, resent>>

\* ServerOnData that leaves the ledger alone.
ServerOnData_NoLedger(n, text, addr, sent) ==
    LET msg == from_str(text).msg
    IN /\ s_recv_log' = s_recv_log
       /\ IF sent
          THEN LET out == ServerRecvSends(text, addr, sent)[1]
               IN /\ net' = Transmit(n, out.to, to_vec(out.msg))
                  /\ last_msg' = Some(out.msg)
                  /\ last_addr' = Some(addr)
                  /\ sreq' = [no |-> msg.no, addr |-> addr]
                  /\ timeouts' = 0
                  /\ resent' = 0
                  /\ UNCHANGED spc
          ELSE /\ net' = n
               /\ spc' = "failed"
               /\ UNCHANGED <<last_msg, last_addr, sreq, timeouts, resent>>

\* main.rs:263-281: a data message from addr.  sent: whether send_to
\* returned Ok.
ServerOnData(n, text, addr, sent) ==
    LET msg == from_str(text).msg
    IN /\ s_recv_log' = record(s_recv_log, msg.no)
       /\ IF sent
          THEN LET out == ServerRecvSends(text, addr, sent)[1]
               IN /\ net' = Transmit(n, out.to, to_vec(out.msg))
                  /\ last_msg' = Some(out.msg)
                  /\ last_addr' = Some(addr)
                  /\ sreq' = [no |-> msg.no, addr |-> addr]
                  /\ timeouts' = 0
                  /\ resent' = 0
                  /\ UNCHANGED spc
          ELSE /\ net' = n
               /\ spc' = "failed"
               /\ UNCHANGED <<last_msg, last_addr, sreq, timeouts, resent>>

\* ServerOnFin that does not return: the loop goes on.
ServerOnFin_KeepsRunning(n) ==
    /\ net' = n
    /\ UNCHANGED svars

\* main.rs:282-287: a fin message.
ServerOnFin(n) ==
    /\ net' = n
    /\ spc' = "done"
    /\ UNCHANGED <<last_msg, last_addr, s_recv_log, sreq, timeouts, resent>>

\* main.rs:256-294: recv_from returned the datagram `text` from addr; n is
\* the transport after the delivery.
ServerOnDatagram(n, text, addr, sent) ==
    LET dec == from_str(text)
    IN /\ spc = "loop"
       /\ IF dec.ok
          THEN IF dec.msg.kind = "data"
               THEN ServerOnData(n, text, addr, sent)
               ELSE ServerOnFin(n)
          ELSE /\ net' = n
               /\ UNCHANGED svars
       /\ UNCHANGED <<cvars, lvars>>

\* A datagram in flight reaches the server, from the client's address.
ServerRecvNet(sent) ==
    \E d \in net, keep \in BOOLEAN :
        /\ d.to = "s"
        /\ ServerOnDatagram(IF keep THEN net ELSE net \ {d}, d.payload, "c", sent)
        /\ UNCHANGED foreign

\* A datagram of another host reaches the server.
ServerRecvForeign(sent) ==
    \E text \in ForeignTexts :
        /\ foreign < MaxForeign
        /\ foreign' = foreign + 1
        /\ ServerOnDatagram(net, text, "x", sent)

\* ServerRecvErr that returns the error.
ServerRecvErr_Fatal ==
    /\ spc = "loop"
    /\ spc' = "failed"
    /\ UNCHANGED <<cvars, last_msg, last_addr, s_recv_log, sreq, timeouts, resent,
                   net, foreign, lvars>>

\* main.rs:296-298: recv_from returned an error.
ServerRecvErr ==
    /\ spc = "loop"
    /\ UNCHANGED <<cvars, svars, net, foreign, lvars>>

\* Resend that counts in the sequence instead of retry.
Resend_NextNo(msg) == [msg EXCEPT !.no = @ + 1]

\* Resend without the increment.
Resend_SameRetry(msg) == msg

\* last_msg with retry + 1 (main.rs:301-304).
Resend(msg) == [msg EXCEPT !.retry = @ + 1]

\* The datagrams [msg, to] the server sends on a timeout (main.rs:301-307);
\* none when send_to fails.
ServerTimeoutSends(sent) ==
    IF IsSome(last_msg) /\ IsSome(last_addr) /\ sent
    THEN IF Unwrap(last_msg).kind = "data"
         THEN <<[msg |-> Resend(Unwrap(last_msg)), to |-> Unwrap(last_addr)]>>
         ELSE <<>>
    ELSE <<>>

\* main.rs:300-313: the wait timed out.  sent: whether send_to returned Ok.
ServerTimeout(sent) ==
    /\ spc = "loop"
    /\ IF IsSome(last_msg) /\ IsSome(last_addr)
       THEN IF Unwrap(last_msg).kind = "data"
            THEN /\ Unwrap(last_msg).retry < MaxResend
                 /\ timeouts' = timeouts + 1
                 /\ IF sent
                    THEN LET out == ServerTimeoutSends(sent)[1]
                         IN /\ net' = Transmit(net, out.to, to_vec(out.msg))
                            /\ last_msg' = Some(out.msg)
                            /\ resent' = resent + Len(ServerTimeoutSends(sent))
                            /\ UNCHANGED spc
                    ELSE /\ spc' = "failed"
                         /\ UNCHANGED <<net, last_msg, resent>>
            ELSE UNCHANGED <<net, spc, last_msg, timeouts, resent>>
       ELSE UNCHANGED <<net, spc, last_msg, timeouts, resent>>
    /\ UNCHANGED <<last_addr, s_recv_log, sreq, cvars, foreign, lvars>>

(***************************************************************************)
(* The transport loses a datagram in flight.                               *)
(***************************************************************************)
Lose ==
    \E d \in net :
        /\ net' = net \ {d}
        /\ UNCHANGED <<cvars, svars, foreign, lvars>>

(***************************************************************************)
(* The protocol: one client, one server, other hosts, a transport that     *)
(* loses, duplicates and reorders.                                         *)
(***************************************************************************)
Init ==
    /\ cpc = "send"
    /\ no = 1
    /\ retry = 0
    /\ c_recv_log = RecvLogNew("CLIENT")
    /\ spc = "loop"
    /\ last_msg = None
    /\ last_addr = None
    /\ s_recv_log = RecvLogNew("SERVER-RECV")
    /\ net = {}
    /\ acked = {}
    /\ sentNos = {}
    /\ finSent = 0
    /\ sends = 0
    /\ sreq = [no |-> 0, addr |-> ""]
    /\ timeouts = 0
    /\ resent = 0
    /\ foreign = 0
    /\ log = RecvLogNew("CLIENT")
    /\ line = None
    /\ recorded = {}

Next ==
    \/ \E sent \in BOOLEAN : ClientSend(sent)
    \/ ClientTimeout
    \/ ClientRecvErr
    \/ \E sent \in BOOLEAN : ClientRecvNet(sent)
    \/ \E sent \in BOOLEAN : ClientRecvForeign(sent)
    \/ \E sent \in BOOLEAN : ServerRecvNet(sent)
    \/ \E sent \in BOOLEAN : ServerRecvForeign(sent)
    \/ ServerRecvErr
    \/ \E sent \in BOOLEAN : ServerTimeout(sent)
    \/ Lose

Spec == Init /\ [][Next]_vars

(***************************************************************************)
(* The closed system: the client, the server and the transport alone, and  *)
(* every send returns Ok.                                                  *)
(***************************************************************************)
NextClosed ==
    \/ ClientSend(TRUE)
    \/ ClientTimeout
    \/ ClientRecvErr
    \/ ClientRecvNet(TRUE)
    \/ ServerRecvNet(TRUE)
    \/ ServerRecvErr
    \/ ServerTimeout(TRUE)
    \/ Lose

SpecClosed == Init /\ [][NextClosed]_vars

(***************************************************************************)
(* The ledger alone: record() called with any numbers, as either endpoint  *)
(* calls it (main.rs:46-58).                                               *)
(***************************************************************************)
LedgerRecord(n) ==
    /\ log' = record(log, n)
    /\ line' = Some(SummaryLine(log'))
    /\ recorded' = recorded \cup {n}
    /\ UNCHANGED <<cvars, svars, net, foreign>>

LedgerNext == \E n \in 0..MaxLogNo : LedgerRecord(n)

SpecLedger == Init /\ [][LedgerNext]_vars

(***************************************************************************)
(* Reading a ranges string back.                                           *)
(***************************************************************************)
IsPrefix(p, str) == Len(p) <= Len(str) /\ SubSeq(str, 1, Len(p)) = p

RECURSIVE SplitFrom(_, _, _)
SplitFrom(str, sep, cur) ==
    IF str = <<>> THEN <<cur>>
    ELSE IF IsPrefix(sep, str)
    THEN <<cur>> \o SplitFrom(SubSeq(str, Len(sep) + 1, Len(str)), sep, <<>>)
    ELSE SplitFrom(Tail(str), sep, Append(cur, Head(str)))

\* The pieces of str between occurrences of sep; no piece for "".
Split(str, sep) == IF str = <<>> THEN <<>> ELSE SplitFrom(str, sep, <<>>)

IsDigit(c) == \E d \in 0..9 : Digit(d) = c
DigitValue(c) == CHOOSE d \in 0..9 : Digit(d) = c
IsNum(str) == str # <<>> /\ \A i \in 1..Len(str) : IsDigit(str[i])

RECURSIVE ParseNum(_)
ParseNum(str) ==
    IF Len(str) = 1 THEN DigitValue(str[1])
    ELSE ParseNum(SubSeq(str, 1, Len(str) - 1)) * 10 + DigitValue(str[Len(str)])

\* A token is "s" or "s-e".
IsToken(tok) ==
    LET parts == Split(tok, <<"-">>)
    IN Len(parts) \in {1, 2} /\ \A i \in 1..Len(parts) : IsNum(parts[i])
TokenStart(tok) == ParseNum(Split(tok, <<"-">>)[1])
TokenEnd(tok) == ParseNum(Split(tok, <<"-">>)[Len(Split(tok, <<"-">>))])
TokenIsSingle(tok) == Len(Split(tok, <<"-">>)) = 1

Tokens(str) == Split(str, <<",", " ">>)
Expand(str) ==
    UNION {TokenStart(Tokens(str)[i])..TokenEnd(Tokens(str)[i]) : i \in 1..Len(Tokens(str))}

ExampleSet == {1, 2, 3, 5, 7, 8, 9, 12}
ExampleRanges ==
    <<"1", "-", "3", ",", " ", "5", ",", " ", "7", "-", "9", ",", " ", "1", "2">>

\* C9: the ranges summary of every ledger is a list of tokens in ascending
\* order that expand back to exactly the recorded set and are its maximal
\* runs: a run of one number is that number alone, a longer run is
\* "start-end" with start < end, and no token touches the next; the empty
\* set gives "" and {1,2,3,5,7,8,9,12} gives "1-3, 5, 7-9, 12".
C9_RangesAreMaximalRuns ==
    LET str == build_ranges_summary(log)
        toks == Tokens(str)
    IN /\ \A i \in 1..Len(toks) :
            /\ IsToken(toks[i])
            /\ TokenStart(toks[i]) <= TokenEnd(toks[i])
            /\ TokenIsSingle(toks[i]) <=> TokenStart(toks[i]) = TokenEnd(toks[i])
       /\ \A i \in 1..(Len(toks) - 1) : TokenStart(toks[i + 1]) > TokenEnd(toks[i]) + 1
       /\ Expand(str) = log.received
       /\ log.received = {} <=> str = <<>>
       /\ log.received = ExampleSet => str = ExampleRanges

C9_Witness ==
    /\ log.received = ExampleSet
    /\ IsSome(line)
    /\ Unwrap(line).ranges = ExampleRanges

\* C10: record(n) on a ledger that contains n leaves the set as it is and
\* prints the line the ledger last printed (the line of the call that made
\* this set); the set is always all the numbers recorded so far, so it
\* only grows.
C10_RecordIdempotent ==
    /\ log.received = recorded
    /\ log.received # {} => IsSome(line)
    /\ \A n \in log.received :
          /\ record(log, n).received = log.received
          /\ Some(SummaryLine(record(log, n))) = line

C10_Witness ==
    /\ Cardinality(log.received) >= 3
    /\ IsSome(line)
    /\ Unwrap(line).total = Cardinality(recorded)

(***************************************************************************)
(* Properties of the protocol.  A step is told by the action instance it   *)
(* is: ClientReceives(text, sent) holds of the steps in which socket.recv  *)
(* returned text, and so on.                                               *)
(***************************************************************************)
\* The texts that can reach the client, and the server.
ClientTexts == {d.payload : d \in {e \in net : e.to = "c"}} \cup ForeignTexts
ServerTexts == {d.payload : d \in {e \in net : e.to = "s"}} \cup ForeignTexts

\* The step is the client's handling of the datagram text.
ClientReceives(text, sent) ==
    /\ cpc = "recv"
    /\ spc' = spc
    /\ \/ /\ UNCHANGED foreign
          /\ [to |-> "c", payload |-> text] \in net
          /\ \/ ClientOnDatagram(net \ {[to |-> "c", payload |-> text]}, text, sent)
             \/ ClientOnDatagram(net, text, sent)
       \/ /\ text \in ForeignTexts
          /\ foreign < MaxForeign
          /\ foreign' = foreign + 1
          /\ ClientOnDatagram(net, text, sent)

\* The step is the server's handling of the datagram text from addr.
ServerReceives(text, addr, sent) ==
    /\ spc = "loop"
    /\ cpc' = cpc
    /\ \/ /\ addr = "c"
          /\ UNCHANGED foreign
          /\ [to |-> "s", payload |-> text] \in net
          /\ \/ ServerOnDatagram(net \ {[to |-> "s", payload |-> text]}, text, addr, sent)
             \/ ServerOnDatagram(net, text, addr, sent)
       \/ /\ addr = "x"
          /\ text \in ForeignTexts
          /\ foreign < MaxForeign
          /\ foreign' = foreign + 1
          /\ ServerOnDatagram(net, text, addr, sent)

\* The step is a step of the client, of the server.
ClientStep ==
    \/ \E sent \in BOOLEAN : ClientSend(sent)
    \/ ClientTimeout
    \/ ClientRecvErr
    \/ \E text \in ClientTexts, sent \in BOOLEAN : ClientReceives(text, sent)
ServerStep ==
    \/ \E text \in ServerTexts, addr \in {"c", "x"}, sent \in BOOLEAN :
          ServerReceives(text, addr, sent)
    \/ ServerRecvErr
    \/ \E sent \in BOOLEAN : ServerTimeout(sent)

\* The datagrams that entered the transport in the step.
NewInFlight == net' \ net

FinMessage == [no |-> 0, retry |-> 0, from |-> "client", kind |-> "fin"]

\* C1: the client's sequence changes only from n to n + 1, and only in a
\* step in which it received a datagram; the step is no timeout and no
\* receive error, and every datagram whose receipt the step can be is a
\* decodable data message from "server" with no = n (none is undecodable,
\* a fin, of another origin or of another sequence).
C1_Lockstep ==
    [][/\ no' # no =>
             /\ no' = no + 1
             /\ cpc = "recv"
             /\ \E text \in ClientTexts, sent \in BOOLEAN : ClientReceives(text, sent)
             /\ ~ClientTimeout
             /\ ~ClientRecvErr
             /\ \A text \in ClientTexts, sent \in BOOLEAN :
                   ClientReceives(text, sent) => EchoFor(text, no)
      ]_vars

C1_Witness ==
    /\ no = 2
    /\ acked = {1}
    /\ retry = 0
    /\ cpc = "send"

\* C2: a client that completed has sent exactly one fin; the fin is
\* [no 0, retry 0, from client, kind fin], it is sent in the step in which
\* the echo of the last sequence is received, and a completed client takes
\* no further step and puts nothing more in flight.
C2_OneFinThenNothing ==
    [][/\ cpc' = "done" => finSent' = 1 /\ no' = LastNo /\ LastNo \in acked'
       /\ finSent' # finSent =>
             /\ finSent' = finSent + 1
             /\ cpc = "recv" /\ cpc' = "done"
             /\ \E text \in ClientTexts :
                   /\ ClientReceives(text, TRUE)
                   /\ EchoFor(text, LastNo)
                   /\ ClientRecvSends(text, TRUE) = <<FinMessage>>
             /\ \A d \in NewInFlight : d = [to |-> "s", payload |-> to_vec(FinMessage)]
       /\ cpc = "done" =>
             /\ UNCHANGED cvars
             /\ ~ClientStep
             /\ \A d \in NewInFlight : d.to # "s"
      ]_vars

C2_Witness ==
    /\ cpc = "done"
    /\ finSent = 1
    /\ [to |-> "s", payload |-> to_vec(FinMessage)] \in net

\* C3: the client's data messages go out in ascending order, one sequence
\* at a time: the sequence is in 1..LastNo and changes only by +1, every
\* sequence below it has been acknowledged, none above it was ever sent,
\* and each data message sent carries the current sequence.
C3_AscendingOneAtATime ==
    [][/\ no' \in {no, no + 1}
       /\ no' \in 1..LastNo
       /\ \A n \in 1..(no' - 1) : n \in acked'
       /\ sentNos' \subseteq 1..no'
       /\ \A d \in net' :
             d.to = "s" /\ d.payload.kind = "data" => d.payload.no \in 1..no'
       /\ ClientSend(TRUE) =>
             /\ ClientData.no = no /\ ClientData.kind = "data"
             /\ \A d \in NewInFlight : d = [to |-> "s", payload |-> to_vec(ClientData)]
             /\ sentNos' = sentNos \cup {no}
      ]_vars

C3_Witness ==
    /\ no = LastNo
    /\ sentNos = 1..LastNo
    /\ acked = 1..(LastNo - 1)
    /\ cpc = "recv"

\* C4: after the server replied to a data request with no = n from peer a,
\* its k-th timeout since then sends one message, to a, with no = n, from
\* "server", kind data and retry = k, so that k timeouts have sent k
\* messages with retry 1..k and last_msg has retry = k.
C4_ServerRetransmits ==
    [][/\ spc' = "loop" /\ IsSome(last_msg') =>
             /\ resent' = timeouts'
             /\ last_msg' = Some([no |-> sreq'.no, retry |-> timeouts',
                                 from |-> "server", kind |-> "data"])
             /\ last_addr' = Some(sreq'.addr)
       /\ \A sent \in BOOLEAN :
             ServerTimeout(sent) /\ IsSome(last_msg) =>
                LET again == [no |-> sreq.no, retry |-> timeouts + 1,
                              from |-> "server", kind |-> "data"]
                IN /\ timeouts' = timeouts + 1
                   /\ sreq' = sreq
                   /\ ServerTimeoutSends(sent) =
                         IF sent THEN <<[msg |-> again, to |-> sreq.addr]>> ELSE <<>>
                   /\ \A d \in NewInFlight :
                         sent /\ d = [to |-> sreq.addr, payload |-> to_vec(again)]
      ]_vars

C4_Witness ==
    /\ spc = "loop"
    /\ IsSome(last_msg)
    /\ sreq.no >= 1
    /\ timeouts = MaxResend
    /\ resent = MaxResend
    /\ Unwrap(last_msg).retry = MaxResend

\* text decodes to a fin message.
IsFin(text) == from_str(text).ok /\ from_str(text).msg.kind = "fin"

\* The fin texts that can reach the server, with the address they come from.
ServerFins ==
    {[text |-> d.payload, addr |-> "c"] : d \in {e \in net : e.to = "s" /\ IsFin(e.payload)}}
    \cup {[text |-> t, addr |-> "x"] : t \in {u \in ForeignTexts : IsFin(u)}}

\* C5: a step in which the server receives a decodable fin (any no, retry
\* and origin) sends nothing and ends the loop; the loop ends in no other
\* way than Ok on a fin or Err, and a server that returned takes no further
\* step and puts nothing more in flight.
C5_FinEndsServer ==
    [][/\ spc = "loop" /\ cpc' = cpc =>
             \A f \in ServerFins, sent \in BOOLEAN :
                ServerReceives(f.text, f.addr, sent) =>
                   /\ spc' = "done"
                   /\ ServerRecvSends(f.text, f.addr, sent) = <<>>
                   /\ NewInFlight = {}
                   /\ UNCHANGED <<last_msg, last_addr, s_recv_log>>
       /\ spc' = "done" /\ spc # "done" =>
             /\ spc = "loop"
             /\ \E f \in ServerFins : ServerReceives(f.text, f.addr, TRUE)
       /\ spc = "done" =>
             /\ UNCHANGED svars
             /\ ~ServerStep
             /\ \A d \in NewInFlight : d.to # "c"
      ]_vars

C5_Witness ==
    /\ spc = "done"
    /\ IsSome(last_msg)
    /\ resent >= 1

\* C6: once the client has terminated and its fin is no longer in flight,
\* the server has received the fin and left its loop.
C6_FinReachesServer ==
    (cpc = "done" /\ ~\E d \in net : d.to = "s" /\ IsFin(d.payload)) => spc = "done"

\* C7: no send failure ends a loop: neither run_client nor run_server
\* returns an error.
C7_SendFailureNotFatal ==
    /\ cpc # "failed"
    /\ spc # "failed"

\* A text the client may put on the wire.
ClientWire(text) ==
    /\ text.wf
    /\ text.from = "client"
    /\ \/ text.kind = "data" /\ text.no \in 1..LastNo
       \/ text.kind = "fin" /\ text.no = 0

\* C8: every message the client sends or is about to send is data with no
\* in 1..LastNo or fin with no = 0, and every message the server sends is
\* data with the no of the request it answers, in the first reply (to any
\* datagram that can reach it) and in every retransmission; so are the
\* datagrams in flight.
C8_WireMessages ==
    /\ \A d \in net :
          /\ d.to = "s" => ClientWire(d.payload)
          /\ d.to = "c" =>
                /\ d.payload.kind = "data"
                /\ d.payload.from = "server"
                /\ d.payload.no \in s_recv_log.received
    /\ cpc = "send" /\ no <= LastNo =>
          ClientWire(to_vec(ClientData)) /\ ClientData.kind = "data"
    /\ cpc = "recv" =>
          \A text \in ClientTexts, sent \in BOOLEAN :
             \A i \in 1..Len(ClientRecvSends(text, sent)) :
                /\ ClientWire(to_vec(ClientRecvSends(text, sent)[i]))
                /\ ClientRecvSends(text, sent)[i].kind = "fin"
    /\ spc = "loop" =>
          /\ \A text \in ServerTexts, addr \in {"c", "x"}, sent \in BOOLEAN :
                \A i \in 1..Len(ServerRecvSends(text, addr, sent)) :
                   /\ ServerRecvSends(text, addr, sent)[i].msg.kind = "data"
                   /\ ServerRecvSends(text, addr, sent)[i].msg.from = "server"
                   /\ ServerRecvSends(text, addr, sent)[i].msg.no = from_str(text).msg.no
          /\ \A sent \in BOOLEAN :
                \A i \in 1..Len(ServerTimeoutSends(sent)) :
                   /\ ServerTimeoutSends(sent)[i].msg.kind = "data"
                   /\ ServerTimeoutSends(sent)[i].msg.from = "server"
                   /\ ServerTimeoutSends(sent)[i].msg.no = sreq.no

C8_Witness ==
    /\ finSent = 1
    /\ resent >= 1
    /\ \E d \in net : d.to = "s" /\ d.payload.kind = "fin" /\ d.payload.no = 0

\* The texts in flight to address a.
NetTexts(a) == {d.payload : d \in {e \in net : e.to = a}}

\* The texts whose receipt by the client the step can be: those in flight
\* to it, or those of other hosts when the step is the receipt of one.
ClientArrivals == IF foreign' = foreign THEN NetTexts("c") ELSE ForeignTexts

\* The same for the server, each with the address it comes from.
ServerArrivals ==
    IF foreign' = foreign
    THEN {[text |-> t, addr |-> "c"] : t \in NetTexts("s")}
    ELSE {[text |-> t, addr |-> "x"] : t \in ForeignTexts}

\* Whether the send of the step, if it made one, returned Ok: a send that
\* fails ends the loop with Err.
ClientSendOk == cpc' # "failed"
ServerSendOk == spc' # "failed"

\* text with the kind field written as k.
WithKind(text, k) == [text EXCEPT !.kind = k]

\* The transport after the delivery of one of its datagrams, or of none.
AfterDelivery == {net} \cup {net \ {d} : d \in net}

\* The step is what the client, the server, does on the datagram text.
ClientHandles(text, sent) == \E n \in AfterDelivery : ClientOnDatagram(n, text, sent)
ServerHandles(text, addr, sent) ==
    \E n \in AfterDelivery : ServerOnDatagram(n, text, addr, sent)

\* Texts that conform to the schema but for the missing kind, and texts
\* that do not conform.
KindAbsent(t) == t.wf /\ t.kind = "absent"
NonConforming(t) == ~t.wf

\* C11: a text without kind decodes to the message the same text with
\* kind "data" decodes to, and the step in which the client or the server
\* receives it is the step it takes on that text with kind "data", with
\* the same messages sent; a non-conforming text is a decode failure, on
\* which the client counts one retry on the same sequence and goes on to
\* send again, and the server changes nothing, sends nothing and stays in
\* its loop.
C11_DecodeRobust ==
    [][/\ cpc = "recv" /\ cpc' # "recv" =>
             \A t \in {u \in ClientArrivals : KindAbsent(u) \/ NonConforming(u)},
                sent \in {ClientSendOk} :
                ClientReceives(t, sent) =>
                   /\ KindAbsent(t) =>
                         /\ from_str(t) = from_str(WithKind(t, "data"))
                         /\ from_str(t).ok /\ from_str(t).msg.kind = "data"
                         /\ ClientRecvSends(t, sent) = ClientRecvSends(WithKind(t, "data"), sent)
                         /\ ClientHandles(WithKind(t, "data"), sent)
                   /\ NonConforming(t) =>
                         /\ ~from_str(t).ok
                         /\ ClientRecvSends(t, sent) = <<>>
                         /\ retry' = retry + 1
                         /\ no' = no
                         /\ cpc' = "send"
                         /\ NewInFlight = {}
                         /\ UNCHANGED <<c_recv_log, finSent>>
       /\ spc = "loop" /\ cpc' = cpc =>
             \A f \in {g \in ServerArrivals : KindAbsent(g.text) \/ NonConforming(g.text)},
                sent \in {ServerSendOk} :
                ServerReceives(f.text, f.addr, sent) =>
                   /\ KindAbsent(f.text) =>
                         /\ from_str(f.text) = from_str(WithKind(f.text, "data"))
                         /\ ServerRecvSends(f.text, f.addr, sent)
                               = ServerRecvSends(WithKind(f.text, "data"), f.addr, sent)
                         /\ ServerHandles(WithKind(f.text, "data"), f.addr, sent)
                   /\ NonConforming(f.text) =>
                         /\ ~from_str(f.text).ok
                         /\ ServerRecvSends(f.text, f.addr, sent) = <<>>
                         /\ spc' = "loop"
                         /\ NewInFlight = {}
                         /\ UNCHANGED svars
      ]_vars

\* The client advanced on a text without kind that the server never sent:
\* the server has received nothing.
C11_Witness ==
    /\ no = 2
    /\ acked = {1}
    /\ foreign = 1
    /\ s_recv_log.received = {}
    /\ c_recv_log.received = {1}

\* text decodes to a data message.
IsData(text) == from_str(text).ok /\ from_str(text).msg.kind = "data"

\* The reply to a request with sequence m.
ReplyTo(m) == [no |-> m, retry |-> 0, from |-> "server", kind |-> "data"]

\* The first request of the client.
FirstRequest == [no |-> 1, retry |-> 0, from |-> "client", kind |-> "data"]

\* C12: a step in which the server receives a decodable data message with
\* sequence m from address a (any m, retry and origin, seen before or
\* not) and its send_to succeeds adds m to the server ledger, sends
\* exactly one message, [no m, retry 0, from server, kind data], to a,
\* stores that message in last_msg and a in last_addr and stays in the
\* loop; the request [1, 0, client, data] gets the reply [1, 0, server,
\* data], and the client that awaits 1 and receives that reply records 1
\* and moves to sequence 2.
C12_ServerEchoes ==
    [][/\ spc = "loop" /\ cpc' = cpc =>
             \A f \in {g \in ServerArrivals : IsData(g.text)} :
                ServerReceives(f.text, f.addr, TRUE) =>
                   LET m == from_str(f.text).msg.no
                   IN /\ ServerRecvSends(f.text, f.addr, TRUE)
                            = <<[msg |-> ReplyTo(m), to |-> f.addr]>>
                      /\ s_recv_log'.received = s_recv_log.received \cup {m}
                      /\ last_msg' = Some(ReplyTo(m))
                      /\ last_addr' = Some(f.addr)
                      /\ spc' = "loop"
                      /\ \A d \in NewInFlight :
                            d = [to |-> f.addr, payload |-> to_vec(ReplyTo(m))]
       /\ cpc = "send" /\ no = 1 =>
             ServerRecvSends(to_vec(FirstRequest), "c", TRUE)
                = <<[msg |-> ReplyTo(1), to |-> "c"]>>
       /\ cpc = "recv" /\ cpc' # "recv" /\ no = 1 =>
             \A sent \in BOOLEAN :
                ClientReceives(to_vec(ReplyTo(1)), sent) =>
                   /\ 1 \in c_recv_log'.received
                   /\ 1 < LastNo => no' = 2
      ]_vars

\* The first exchange: the server replied to the first request, the client
\* recorded 1 and moved to sequence 2.
C12_Witness ==
    /\ no = 2
    /\ acked = {1}
    /\ foreign = 0
    /\ c_recv_log.received = {1}
    /\ s_recv_log.received = {1}
    /\ last_msg = Some(ReplyTo(1))
    /\ last_addr = Some("c")

\* The data texts that can reach the server and carry a sequence below the
\* one last_msg holds.
EarlierDatas ==
    {f \in ServerArrivals :
        /\ IsData(f.text)
        /\ IsSome(last_msg)
        /\ from_str(f.text).msg.no < Unwrap(last_msg).no}

\* C13 as claimed: a step in which the server, holding a reply to a higher
\* sequence, receives a data request with an earlier sequence sends no
\* reply and keeps last_msg, and the sequence held in last_msg never
\* decreases.
C13_EarlierRequestIgnored ==
    [][/\ spc = "loop" /\ cpc' = cpc =>
             \A f \in EarlierDatas :
                ServerReceives(f.text, f.addr, TRUE) =>
                   /\ ServerRecvSends(f.text, f.addr, TRUE) = <<>>
                   /\ NewInFlight = {}
                   /\ last_msg' = last_msg
       /\ IsSome(last_msg) /\ IsSome(last_msg') =>
             Unwrap(last_msg').no >= Unwrap(last_msg).no
      ]_vars

\* C13, amended: a step in which the server, holding a reply to a higher
\* sequence, receives a data request with an earlier sequence m answers it
\* as it answers any data request: it sends [no m, retry 0, from server,
\* kind data] to the sender and last_msg becomes that reply, so the
\* sequence held in last_msg decreases to m.
C13_EarlierRequestAnswered ==
    [][spc = "loop" /\ cpc' = cpc =>
          \A f \in EarlierDatas :
             ServerReceives(f.text, f.addr, TRUE) =>
                LET m == from_str(f.text).msg.no
                IN /\ ServerRecvSends(f.text, f.addr, TRUE)
                         = <<[msg |-> ReplyTo(m), to |-> f.addr]>>
                   /\ last_msg' = Some(ReplyTo(m))
                   /\ last_addr' = Some(f.addr)
                   /\ Unwrap(last_msg').no < Unwrap(last_msg).no
                   /\ m \in s_recv_log'.received
                   /\ \A d \in NewInFlight :
                         d = [to |-> f.addr, payload |-> to_vec(ReplyTo(m))]
      ]_vars

\* The server holds a reply to a sequence below one it answered before.
C13_Witness ==
    /\ spc = "loop"
    /\ IsSome(last_msg)
    /\ Unwrap(last_msg).retry = 0
    /\ \E m \in s_recv_log.received : m > Unwrap(last_msg).no

\* What a retry-worthy event does to the client: one more retry, the same
\* sequence, nothing sent, and the loop goes on to send the same sequence
\* with the new retry count.
RetryEffect ==
    /\ retry' = retry + 1
    /\ no' = no
    /\ cpc' = "send"
    /\ no' <= LastNo
    /\ ClientData' = [no |-> no, retry |-> retry + 1, from |-> "client", kind |-> "data"]
    /\ NewInFlight = {}
    /\ UNCHANGED <<finSent, sentNos, acked>>

\* The step is a retry-worthy event: a receive timeout, a receive error,
\* or the receipt of a datagram that is not the awaited echo.
RetryWorthy ==
    \/ ClientTimeout
    \/ ClientRecvErr
    \/ \E text \in {t \in ClientArrivals : ~EchoFor(t, no)} :
          ClientReceives(text, ClientSendOk)

\* C14: a receive timeout, a receive error, and the receipt of a datagram
\* that does not decode, or decodes to a fin, to a message not from
\* "server" or to one of another sequence, each add exactly 1 to retry,
\* leave the sequence alone and keep the loop running; the send that
\* follows carries the same sequence, already sent before, with the
\* incremented retry.
C14_RetryWorthy ==
    [][/\ cpc = "recv" /\ cpc' # "recv" =>
             (RetryWorthy => RetryEffect)
       /\ cpc = "send" /\ retry > 0 /\ no <= LastNo /\ ClientSend(TRUE) =>
             /\ no \in sentNos
             /\ \A d \in NewInFlight : d = [to |-> "s", payload |-> to_vec(ClientData)]
             /\ UNCHANGED <<no, retry>>
      ]_vars

\* A retransmission of the last sequence is in flight with the highest
\* retry count.
C14_Witness ==
    /\ cpc = "recv"
    /\ no = LastNo
    /\ retry = MaxRetry
    /\ [to |-> "s", payload |-> to_vec(ClientData)] \in net

\* C15: the retry field of a data message is the number of data messages
\* the client already sent for that sequence: the message the client is
\* about to send carries retry = sends (0 for the first message of every
\* sequence, since an advance resets both), a client that waits has sent
\* sends = retry + 1 messages for its sequence, with retry 0, 1, ...,
\* retry, and every data message in flight for the current sequence
\* carries one of those values.
C15_RetryCountsSends ==
    /\ cpc = "send" /\ no <= LastNo =>
          /\ ClientData.retry = sends
          /\ sends = 0 <=> no \notin sentNos
    /\ cpc = "recv" =>
          /\ sends = retry + 1
          /\ no \in sentNos
    /\ \A d \in net :
          d.to = "s" /\ d.payload.kind = "data" /\ d.payload.no = no =>
             d.payload.retry \in 0..(sends - 1)

\* The second sequence is being retransmitted: sent twice, retry 1.
C15_Witness ==
    /\ cpc = "recv"
    /\ no = 2
    /\ acked = {1}
    /\ sends = 2
    /\ [to |-> "s", payload |-> to_vec(ClientData)] \in net
    /\ ClientData.retry = 1

\* A cycle of the server that does nothing: last_msg, last_addr and the
\* ledger are as before, nothing is sent, the loop goes on.
NoOpCycle ==
    /\ UNCHANGED <<last_msg, last_addr, s_recv_log>>
    /\ NewInFlight = {}
    /\ spc' = "loop"

\* C16: the receipt of a datagram that does not decode, a receive error,
\* and a timeout while last_msg is None are cycles that do nothing; so a
\* server that has recorded no data message holds no reply and nothing it
\* sent is in flight.
C16_ServerNoOps ==
    [][/\ spc = "loop" /\ cpc' = cpc =>
             /\ \A f \in {g \in ServerArrivals : NonConforming(g.text)},
                   sent \in {ServerSendOk} :
                   ServerReceives(f.text, f.addr, sent) =>
                      /\ ServerRecvSends(f.text, f.addr, sent) = <<>>
                      /\ NoOpCycle
             /\ ServerRecvErr => NoOpCycle
             /\ ~IsSome(last_msg) =>
                   \A sent \in BOOLEAN :
                      ServerTimeout(sent) =>
                         /\ ServerTimeoutSends(sent) = <<>>
                         /\ NoOpCycle
       /\ s_recv_log'.received = {} =>
             /\ last_msg' = None
             /\ last_addr' = None
             /\ \A d \in net' : d.to # "c"
      ]_vars

\* A datagram of another host reached the server before the client did
\* anything, and the server neither recorded it nor ended: it did not
\* decode.
C16_Witness ==
    /\ foreign = 1
    /\ spc = "loop"
    /\ last_msg = None
    /\ s_recv_log.received = {}
    /\ cpc = "send" /\ no = 1 /\ retry = 0 /\ sends = 0

\* C17: a step in which the client receives a datagram that decodes to a
\* data message adds its sequence to the client ledger, awaited or not
\* (another sequence or another origin included); the receipt of a fin or
\* of a datagram that does not decode, a timeout, a receive error and a
\* send leave the ledger alone; and a receipt that is not the awaited echo
\* leaves the sequence alone.
C17_ClientLedger ==
    [][/\ cpc = "recv" /\ cpc' # "recv" =>
             /\ \A text \in ClientArrivals :
                   \/ /\ c_recv_log'.received =
                            IF IsData(text)
                            THEN c_recv_log.received \cup {from_str(text).msg.no}
                            ELSE c_recv_log.received
                      /\ ~EchoFor(text, no) => no' = no
                   \/ ~ClientReceives(text, ClientSendOk)
             /\ ClientTimeout \/ ClientRecvErr => UNCHANGED c_recv_log
       /\ cpc # "recv" \/ cpc' = "recv" => UNCHANGED c_recv_log
      ]_vars

\* The client recorded a sequence it was not awaiting and stayed on its
\* sequence.
C17_Witness ==
    /\ no = 1
    /\ acked = {}
    /\ c_recv_log.received # {}
    /\ retry = 1

\* C18: the client's loop ends only when every sequence 1..LastNo has been
\* acknowledged and the fin has been sent, and the server's loop ends only
\* in a step in which the server receives a fin.
C18_OnlyDefinedExits ==
    [][/\ cpc' \notin {"send", "recv"} =>
             /\ acked' = 1..LastNo
             /\ finSent' = 1
       /\ spc' # "loop" /\ spc = "loop" =>
             \E f \in ServerFins, sent \in BOOLEAN : ServerReceives(f.text, f.addr, sent)
      ]_vars

\* The ranges summary of the ledger 1..m.
SingleRun(m) == IF m = 1 THEN FormatNum(1) ELSE FormatRange(1, m)

ClientRetrySat ==
    /\ retry = MaxRetry
    /\ cpc' = "send"
    /\ sends' = sends - 1
    /\ UNCHANGED <<no, retry, finSent>>

\* main.rs:219-230 at the cap: the wait timed out or recv returned an
\* error.
ClientTimeoutSat ==
    /\ cpc = "recv"
    /\ ClientRetrySat
    /\ UNCHANGED <<c_recv_log, acked, net, sentNos, svars, foreign, lvars>>

\* main.rs:168-217 at the cap, on a datagram that is not the awaited echo.
ClientOnDatagramSat(n, text) ==
    /\ cpc = "recv"
    /\ ~EchoFor(text, no)
    /\ c_recv_log' = IF IsData(text)
                     THEN record(c_recv_log, from_str(text).msg.no)
                     ELSE c_recv_log
    /\ ClientRetrySat
    /\ net' = n
    /\ UNCHANGED <<acked, sentNos, svars, lvars>>

ClientRecvNetSat ==
    \E d \in net, keep \in BOOLEAN :
        /\ d.to = "c"
        /\ ClientOnDatagramSat(IF keep THEN net ELSE net \ {d}, d.payload)
        /\ UNCHANGED foreign

\* main.rs:300-313 at the cap: last_msg is sent again as it is.
ServerTimeoutSat ==
    /\ spc = "loop"
    /\ IsSome(last_msg) /\ IsSome(last_addr)
    /\ Unwrap(last_msg).kind = "data"
    /\ Unwrap(last_msg).retry = MaxResend
    /\ net' = Transmit(net, Unwrap(last_addr), to_vec(Unwrap(last_msg)))
    /\ UNCHANGED <<svars, cvars, foreign, lvars>>

NextLive ==
    \/ ClientSend(TRUE)
    \/ ClientTimeout
    \/ ClientRecvErr
    \/ ClientTimeoutSat
    \/ ClientRecvNet(TRUE)
    \/ ClientRecvNetSat
    \/ ServerRecvNet(TRUE)
    \/ ServerRecvErr
    \/ ServerTimeout(TRUE)
    \/ ServerTimeoutSat
    \/ Lose

\* The client sends a data message for sequence n.
ClientSendsData(n) == no = n /\ no <= LastNo /\ ClientSend(TRUE)

\* The server receives a data message of the client for sequence n.
ServerGetsData(n) ==
    \E d \in net, keep \in BOOLEAN :
        /\ d.to = "s"
        /\ IsData(d.payload)
        /\ d.payload.no = n
        /\ ServerOnDatagram(IF keep THEN net ELSE net \ {d}, d.payload, "c", TRUE)
        /\ UNCHANGED foreign

\* The server sends its reply to sequence n, for the first time or again.
ServerSendsReply(n) ==
    \/ ServerGetsData(n)
    \/ /\ IsSome(last_msg)
       /\ Unwrap(last_msg).no = n
       /\ ServerTimeout(TRUE) \/ ServerTimeoutSat

\* The client receives the server's reply to sequence n.
ClientGetsReply(n) ==
    \E d \in net, keep \in BOOLEAN :
        /\ d.to = "c"
        /\ d.payload.no = n
        /\ UNCHANGED foreign
        /\ \/ ClientOnDatagram(IF keep THEN net ELSE net \ {d}, d.payload, TRUE)
           \/ ClientOnDatagramSat(IF keep THEN net ELSE net \ {d}, d.payload)

\* The wait of the client ends: by a datagram, a timeout or an error.
ClientWaitEnds == ClientTimeout \/ ClientTimeoutSat

\* Fair delivery: what is sent again and again is delivered again and
\* again, in both directions.
FairDelivery ==
    \A n \in 1..LastNo :
        /\ []<><<ClientSendsData(n)>>_vars => []<><<ServerGetsData(n)>>_vars
        /\ []<><<ServerSendsReply(n)>>_vars => []<><<ClientGetsReply(n)>>_vars

\* The client's task runs (its send returns, its 100 ms wait ends) and the
\* transport is fair.
SpecLive ==
    /\ Init
    /\ [][NextLive]_vars
    /\ WF_vars(ClientSend(TRUE))
    /\ WF_vars(ClientWaitEnds)
    /\ FairDelivery

\* C20: under fair delivery and without send failures the client
\* eventually has every sequence 1..LastNo acknowledged and has terminated.
C20_ClientTerminates == <>(cpc = "done" /\ acked = 1..LastNo /\ finSent = 1)

\* The client terminated after its retry counter had reached the cap on
\* the last sequence.
C20_Witness ==
    /\ cpc = "done"
    /\ acked = 1..LastNo
    /\ retry = MaxRetry
    /\ spc = "loop"

====
